---- MODULE Spec2Model ----
(***************************************************************************)
(* Settlement batch of src/app.py: clean_numeric_value, process_data and   *)
(* the per-artist loop of generate_reports; the integer normalizer and the *)
(* totals check of src/app_old1.py.                                        *)
(*                                                                         *)
(* Representation.  Text cells are strings; the Korean cell values and     *)
(* column names of the source are written by their English gloss           *)
(* (Domestic, Overseas, Advertising, ...).  A blank cell is NaN, as        *)
(* read_excel loads it.  Floats are exact numbers here: amounts are whole  *)
(* currency units, the share rate is held in percent, and the distributed  *)
(* amount (an amount times a rate) in hundredths of a unit.                *)
(***************************************************************************)
EXTENDS Integers, Sequences, FiniteSets, TLC

VARIABLES
    revenue_df,         \* revenue ledger: [columns, rows]
    song_df,            \* cost ledger: [columns, rows]
    pc,                 \* position in generate_reports
    artists,            \* revenue_df[artist].unique()
    idx,                \* number of loop iterations finished
    processed_artists,  \* succeeded list
    failed_artists,     \* failed list of [artist, error]
    zip_file,           \* names written to the archive
    settlement,         \* locals bound by the last process_data that returned
    collaborators,      \* per iteration, what rendering and writing returned
    result,             \* what generate_reports returned
    value,              \* a cell handed to the normalizers
    cleaned,            \* what each clean_numeric_value made of it
    statistics_df,      \* app_old1: the uploaded statistics, summary row first
    creator_info,       \* app_old1: rows of [id, percent]
    total_stats,        \* DataValidator.total_stats
    match,              \* views_match and revenue_match of main
    main_pc,            \* position in main
    creator_idx,        \* creators the loop of process_data has finished
    failed_creators,
    reports_data,
    excel_files,
    processed_full_data,
    validation_results, \* the flags show_validation_results displays
    batch_result,       \* what process_data handed back to main
    status_container,   \* app_old1: the error messages shown for creators
    session_state,      \* app_old1: st.session_state
    clean_calls         \* what clean_numeric_value was called on, and when

batch_vars == <<revenue_df, song_df, pc, artists, idx, processed_artists,
                failed_artists, zip_file, settlement, collaborators, result>>

cell_vars == <<value, cleaned>>

main_vars == <<statistics_df, creator_info, total_stats, match, main_pc,
               creator_idx, failed_creators, reports_data, excel_files,
               processed_full_data, validation_results, batch_result,
               status_container, session_state>>

vars == <<batch_vars, cell_vars, main_vars, clean_calls>>

-----------------------------------------------------------------------------
(* Bounds of the model *)

MaxRows == 3
MaxCostRows == 2
MaxAggRows == 3
MaxStrLen == 3
MaxDetailRows == 2

-----------------------------------------------------------------------------
(* Cells *)

NaN == "NaN"

Num(n) == [kind |-> "num", val |-> n]
Str(s) == [kind |-> "str", val |-> s]
Blank == [kind |-> "nan", val |-> 0]
None == [kind |-> "none", val |-> 0]
List(cells) == [kind |-> "list", val |-> cells]
\* a float cell that holds an infinity
Inf == [kind |-> "inf", val |-> "inf"]

Digits == <<"0", "1", "2", "3", "4", "5", "6", "7", "8", "9">>

IsDigit(c) == \E i \in 1..Len(Digits) : Digits[i] = c

DigitVal(c) == (CHOOSE i \in 1..Len(Digits) : Digits[i] = c) - 1

\* str.replace left out
RemoveCommas_none(s) == s

\* str.replace(',', '')
RECURSIVE RemoveCommas(_)
RemoveCommas(s) ==
    IF s = <<>> THEN <<>>
    ELSE IF Head(s) = "," THEN RemoveCommas(Tail(s))
    ELSE <<Head(s)>> \o RemoveCommas(Tail(s))

RECURSIVE LStrip(_)
LStrip(s) ==
    IF s # <<>> /\ Head(s) = " " THEN LStrip(Tail(s)) ELSE s

RECURSIVE RStrip(_)
RStrip(s) ==
    IF s # <<>> /\ s[Len(s)] = " " THEN RStrip(SubSeq(s, 1, Len(s) - 1)) ELSE s

RECURSIVE DigitsValue(_, _)
DigitsValue(s, acc) ==
    IF s = <<>> THEN acc ELSE DigitsValue(Tail(s), acc * 10 + DigitVal(Head(s)))

AllDigits(s) == s # <<>> /\ \A i \in 1..Len(s) : IsDigit(s[i])

\* F of the value of x; x is evaluated once
With(x, F(_)) == CHOOSE y \in {F(v) : v \in {x}} : TRUE

\* a float: a number, or an infinity or not-a-number by its name
Float(x) == [ok |-> TRUE, finite |-> TRUE, val |-> x]

NonFinite(name) == [ok |-> TRUE, finite |-> FALSE, val |-> name]

\* the digits or the word that is left of a stripped string once its sign is
\* read: a number, a non-finite value, or a ValueError (ok = FALSE)
FloatOfBody(neg, body) ==
    IF AllDigits(body)
    THEN Float(IF neg THEN 0 - DigitsValue(body, 0) ELSE DigitsValue(body, 0))
    ELSE IF body \in {<<"i", "n", "f">>,
                      <<"i", "n", "f", "i", "n", "i", "t", "y">>}
    THEN NonFinite(IF neg THEN "-inf" ELSE "inf")
    ELSE IF body = <<"n", "a", "n">>
    THEN NonFinite("nan")
    ELSE [ok |-> FALSE, finite |-> TRUE, val |-> 0]

\* float(str): surrounding blanks, a sign, then the body
PyFloat(s) ==
    With(RStrip(LStrip(s)), LAMBDA t :
        IF t # <<>> /\ Head(t) \in {"-", "+"}
        THEN With(Tail(t), LAMBDA body : FloatOfBody(Head(t) = "-", body))
        ELSE FloatOfBody(FALSE, t))

\* lines 24-31 of app.py, the float with its kind.  pd.isna of a list is an
\* array: its truth value raises ValueError, or it is false and float(list)
\* raises TypeError, or it is true (one blank element); each way the result
\* is 0
CleanFloat(v) ==
    IF v.kind \in {"nan", "none", "list"} THEN Float(0)
    ELSE IF v.kind = "str"
    THEN With(PyFloat(RemoveCommas(v.val)), LAMBDA f :
             IF f.ok THEN f ELSE Float(0))
    ELSE IF v.kind = "inf" THEN NonFinite(v.val)
    ELSE Float(v.val)

\* app.py
clean_numeric_value(v) == CleanFloat(v).val

Return(x) == [raised |-> "", val |-> x]

\* int(float): OverflowError for an infinity (not caught by the except
\* clause), ValueError for not-a-number (caught)
PyInt(f) ==
    IF f.finite THEN Return(f.val)
    ELSE IF f.val = "nan" THEN Return(0)
    ELSE [raised |-> "OverflowError", val |-> 0]

\* app_old1.py: the same with int(float(value))
old1_clean_numeric_value(v) ==
    IF v.kind \in {"nan", "none", "list"} THEN Return(0)
    ELSE IF v.kind = "str"
    THEN With(PyFloat(RemoveCommas(v.val)), LAMBDA f :
             IF f.ok THEN PyInt(f) ELSE Return(0))
    ELSE IF v.kind = "inf" THEN PyInt(NonFinite(v.val))
    ELSE PyInt(Float(v.val))

-----------------------------------------------------------------------------
(* Columns *)

RevenueColumns == {"artist", "album", "major", "minor", "service", "net"}

SongColumns == {"artist", "prev", "ded", "bal", "rate"}

numeric_columns == <<"prev", "ded", "bal", "rate">>

\* priority lists of process_data
sort_order ==
    [major   |-> <<"Domestic", "Overseas", "YouTube">>,
     minor   |-> <<"Advertising", "Subscription", "Other", "Streaming">>,
     service |-> <<"Other Service", "Streaming", "Streaming (Audio)",
                   "Art Track", "Sound Recording">>]

\* Ascending order of the cell values as Python compares the source strings
\* (code points: Latin before Hangul).  Etc, Misc and Shorts are category
\* values that are in no priority list.
lex_order ==
    [album   |-> <<"album1", "album2">>,
     major   |-> <<"Etc", "Misc", "YouTube", "Domestic", "Overseas">>,
     minor   |-> <<"Etc", "Misc", "Advertising", "Subscription", "Other",
                   "Streaming">>,
     service |-> <<"Art Track", "Shorts", "Sound Recording", "Other Service",
                   "Streaming", "Streaming (Audio)">>]

IndexOf(seq, v) == CHOOSE i \in 1..Len(seq) : seq[i] = v

InSeq(seq, v) == \E i \in 1..Len(seq) : seq[i] = v

LexPos(col, v) == IndexOf(lex_order[col], v)

-----------------------------------------------------------------------------
(* process_data *)

group_columns == <<"album", "major", "minor", "service">>

\* elementwise ==, under which a blank cell equals nothing, itself included
CellEq(a, b) == a # NaN /\ b # NaN /\ a = b

KeyOf(r, cols) == [i \in 1..Len(cols) |-> r[cols[i]]]

HasNa(k) == \E i \in 1..Len(k) : k[i] = NaN

\* groupby drops the rows that have a blank cell in a key column
GroupKeys(rows, cols) ==
    {k \in {KeyOf(rows[i], cols) : i \in 1..Len(rows)} : ~HasNa(k)}

KeyLess(cols, k1, k2) ==
    \E i \in 1..Len(cols) :
        /\ \A j \in 1..(i - 1) : k1[j] = k2[j]
        /\ LexPos(cols[i], k1[i]) < LexPos(cols[i], k2[i])

\* groupby(sort=True): the group keys in ascending order
RECURSIVE SortKeys(_, _)
SortKeys(S, cols) ==
    IF S = {} THEN <<>>
    ELSE LET m == CHOOSE k \in S : \A o \in S \ {k} : KeyLess(cols, k, o)
         IN  <<m>> \o SortKeys(S \ {m}, cols)

RECURSIVE SumWhere(_, _, _)
SumWhere(rows, cols, k) ==
    IF rows = <<>> THEN 0
    ELSE (IF KeyOf(Head(rows), cols) = k THEN Head(rows).net.val ELSE 0)
         + SumWhere(Tail(rows), cols, k)

\* rows.groupby(cols)[net].sum().reset_index()
GroupRow(rows, cols, k) ==
    [c \in {cols[j] : j \in 1..Len(cols)} |-> k[IndexOf(cols, c)]]
        @@ [net |-> SumWhere(rows, cols, k)]

RECURSIVE GroupRows(_, _, _)
GroupRows(rows, cols, ks) ==
    IF ks = <<>> THEN <<>>
    ELSE <<GroupRow(rows, cols, Head(ks))>> \o GroupRows(rows, cols, Tail(ks))

groupby_sum(rows, cols) ==
    GroupRows(rows, cols, SortKeys(GroupKeys(rows, cols), cols))

\* unlisted values filled with 0
SortRank_fill0(col, v) ==
    IF InSeq(sort_order[col], v) THEN IndexOf(sort_order[col], v) - 1 ELSE 0

\* map(priority index).fillna(len(priority list))
SortRank(col, v) ==
    IF InSeq(sort_order[col], v) THEN IndexOf(sort_order[col], v) - 1
    ELSE Len(sort_order[col])

SortKey(r) ==
    <<LexPos("album", r.album), SortRank("major", r.major),
      SortRank("minor", r.minor), SortRank("service", r.service)>>

TupleLess(a, b) ==
    \E i \in 1..Len(a) :
        /\ \A j \in 1..(i - 1) : a[j] = b[j]
        /\ a[i] < b[i]

TupleLeq(a, b) == a = b \/ TupleLess(a, b)

\* r goes in front of the rows it ties with
RECURSIVE InsertRow_front(_, _)
InsertRow_front(sorted, r) ==
    IF sorted = <<>> THEN <<r>>
    ELSE IF TupleLeq(SortKey(r), SortKey(Head(sorted)))
    THEN <<r>> \o sorted
    ELSE <<Head(sorted)>> \o InsertRow_front(Tail(sorted), r)

\* r goes behind every row that does not sort after it
RECURSIVE InsertRow(_, _)
InsertRow(sorted, r) ==
    IF sorted = <<>> THEN <<r>>
    ELSE IF TupleLess(SortKey(r), SortKey(Head(sorted)))
    THEN <<r>> \o sorted
    ELSE <<Head(sorted)>> \o InsertRow(Tail(sorted), r)

\* sort_values(by=[album, major_sort, minor_sort, service_sort]): a stable
\* sort by several keys
RECURSIVE SortFrom(_, _)
SortFrom(done, rest) ==
    IF rest = <<>> THEN done
    ELSE SortFrom(InsertRow(done, Head(rest)), Tail(rest))

sort_values(rows) == SortFrom(<<>>, rows)

RECURSIVE SumNet(_)
SumNet(rows) ==
    IF rows = <<>> THEN 0 ELSE Head(rows).net + SumNet(Tail(rows))

FirstMissing(cols, present) ==
    cols[CHOOSE i \in 1..Len(cols) :
            /\ cols[i] \notin present
            /\ \A j \in 1..(i - 1) : cols[j] \in present]

KeyError(col) == "KeyError: " \o col

IndexError == "single positional indexer is out-of-bounds"

Raise(e) == [raised |-> TRUE, error |-> e]

\* the cost row process_data uses
CostMatches(song_data, artist) ==
    SelectSeq(song_data.rows, LAMBDA r : CellEq(r.artist, artist))

CostRow(song_data, artist) == CostMatches(song_data, artist)[1]

\* the amount after deduction clamped at zero
deduction_clamped(total_revenue, cost) ==
    [song_cost           |-> cost.prev.val,
     deduction_amount    |-> cost.ded.val,
     remaining_song_cost |-> cost.bal.val,
     applied_amount      |-> IF total_revenue < cost.ded.val THEN 0
                             ELSE total_revenue - cost.ded.val]

deduction(total_revenue, cost) ==
    [song_cost           |-> cost.prev.val,
     deduction_amount    |-> cost.ded.val,
     remaining_song_cost |-> cost.bal.val,
     applied_amount      |-> total_revenue - cost.ded.val]

\* rate in percent, amount in hundredths of a unit
distribution(deduction_data, cost) ==
    [item   |-> "share rate",
     rate   |-> cost.rate.val,
     amount |-> deduction_data.applied_amount * cost.rate.val]

\* the rows of every artist, the filter left out
service_rows_all(revenue_data, artist) == revenue_data.rows

service_rows(revenue_data, artist) ==
    SelectSeq(revenue_data.rows, LAMBDA r : CellEq(r.artist, artist))

\* lines 59-80, from the two summaries on
settle(service_summary, album_summary, song_data, artist) ==
    LET total_revenue == SumNet(album_summary)
    IN  IF "artist" \notin song_data.columns
        THEN Raise(KeyError("artist"))
        ELSE IF CostMatches(song_data, artist) = <<>>
        THEN Raise(IndexError)
        ELSE
        LET cost == CostRow(song_data, artist)
            deduction_data == deduction(total_revenue, cost)
        IN  [raised            |-> FALSE,
             error             |-> "",
             service_summary   |-> service_summary,
             album_summary     |-> album_summary,
             total_revenue     |-> total_revenue,
             deduction_data    |-> deduction_data,
             distribution_data |-> distribution(deduction_data, cost)]

process_data(revenue_data, song_data, artist) ==
    IF \E i \in 1..Len(group_columns) : group_columns[i] \notin revenue_data.columns
    THEN Raise(KeyError(FirstMissing(group_columns, revenue_data.columns)))
    ELSE
    With(service_rows(revenue_data, artist), LAMBDA service_data :
      With(groupby_sum(service_data, group_columns), LAMBDA grouped :
        With(sort_values(grouped), LAMBDA service_summary :
          With(groupby_sum(service_data, <<"album">>), LAMBDA album_summary :
            settle(service_summary, album_summary, song_data, artist)))))

-----------------------------------------------------------------------------
(* Ledgers the batch is run on *)

RevRow(artist, album, major, minor, service, net) ==
    [artist |-> artist, album |-> album, major |-> major, minor |-> minor,
     service |-> service, net |-> net]

CostRec(artist, prev, ded, bal, rate) ==
    [artist |-> artist, prev |-> prev, ded |-> ded, bal |-> bal, rate |-> rate]

\* rows of several artists, one of them with a blank artist cell
BatchRows ==
    {RevRow("A", "album1", "Domestic", "Streaming", "Streaming",
            Str(<<"1", ",", "0", "0", "0">>)),
     RevRow("A", "album1", "Overseas", "Other", "Art Track", Num(500)),
     RevRow("B", "album1", "Domestic", "Streaming", "Streaming", Num(200)),
     RevRow("C", "album2", "YouTube", "Advertising", "Sound Recording", Blank),
     RevRow(NaN, "album1", "Domestic", "Streaming", "Streaming", Num(100))}

\* cost rows; artist A has two different ones, and one row of C has a
\* balance that is not the cost less the deduction
CostRows ==
    {CostRec("A", Str(<<"2", ",", "0", "0", "0">>), Num(300), Num(1700), Num(50)),
     CostRec("A", Num(900), Num(100), Num(800), Num(30)),
     CostRec("B", Num(500), Num(300), Num(200), Num(50)),
     CostRec("C", Num(0), Num(0), Num(0), Num(100)),
     CostRec("C", Num(1000), Num(300), Num(500), Num(100))}

\* rows of one artist over the category taxonomy, blank cells included
AggRows ==
    {RevRow("A", "album1", "Domestic", "Streaming", "Streaming", Num(1000)),
     RevRow("A", "album1", "Overseas", "Other", "Art Track", Num(500)),
     RevRow("A", "album1", "YouTube", "Advertising", "Sound Recording", Num(200)),
     RevRow("A", "album2", "Domestic", "Subscription", "Streaming (Audio)", Num(200)),
     RevRow("A", "album1", "Domestic", "Streaming", "Other Service", Num(500)),
     RevRow("A", "album1", "Misc", "Streaming", "Streaming", Num(100)),
     RevRow("A", "album1", "Etc", "Streaming", "Streaming", Num(200)),
     RevRow("A", "album2", "Domestic", "Etc", "Shorts", Num(100)),
     RevRow("A", NaN, "Domestic", "Streaming", "Streaming", Num(100)),
     RevRow("A", "album1", "Domestic", NaN, "Streaming", Num(200))}

\* sequences of distinct members of S, of length at most n
RECURSIVE Arrangements(_, _)
Arrangements(S, n) ==
    IF n = 0 THEN {<<>>}
    ELSE LET shorter == Arrangements(S, n - 1)
         IN  shorter \cup {Append(q, x) : q \in shorter, x \in S}

Distinct(q) == \A i, j \in 1..Len(q) : i # j => q[i] # q[j]

Ledgers(S, n) == {q \in Arrangements(S, n) : Distinct(q)}

\* the column sets of the two uploaded tables: complete, with the amount
\* column under its other name, or with one column missing in one table
ColumnCases ==
    {<<RevenueColumns, SongColumns>>,
     <<(RevenueColumns \ {"net"}) \cup {"rights_amount"}, SongColumns>>,
     <<RevenueColumns \ {"net"}, SongColumns>>,
     <<RevenueColumns \ {"artist"}, SongColumns>>,
     <<RevenueColumns \ {"album"}, SongColumns>>,
     <<RevenueColumns, SongColumns \ {"artist"}>>,
     <<RevenueColumns, SongColumns \ {"ded"}>>}

NoSettlement == [artist |-> NaN, raised |-> TRUE, error |-> ""]

NotCalled_clean == [called |-> FALSE, raised |-> "", finite |-> TRUE, val |-> 0]

\* no cell is being normalized on its own
InitNoCell ==
    /\ value = Blank
    /\ cleaned = [app |-> NotCalled_clean, old1 |-> NotCalled_clean]

NoStats ==
    [creator_count |-> 0, total_views_summary |-> Blank,
     total_revenue_summary |-> Blank, total_views_data |-> 0,
     total_revenue_data |-> 0, total_revenue_after |-> Blank]

NotComputed == [computed |-> FALSE, views_match |-> FALSE, revenue_match |-> FALSE]

\* st.session_state of a fresh session: no key is set
NoSession ==
    [reports_generated |-> FALSE,
     failed_status     |-> [set |-> FALSE, failed |-> <<>>]]

\* the locals of process_data of app_old1.py as it starts
InitLoop_old1 ==
    /\ creator_idx = 0
    /\ failed_creators = <<>>
    /\ reports_data = {}
    /\ excel_files = {}
    /\ processed_full_data = <<>>
    /\ validation_results = NotComputed
    /\ batch_result = "not called"
    /\ status_container = <<>>
    /\ session_state = NoSession

\* nothing is uploaded to app_old1
InitNoMain ==
    /\ statistics_df = <<>>
    /\ creator_info = <<>>
    /\ total_stats = NoStats
    /\ match = NotComputed
    /\ main_pc = "idle"
    /\ InitLoop_old1

InitControl ==
    /\ clean_calls = {}
    /\ pc = "start"
    /\ artists = <<>>
    /\ idx = 0
    /\ processed_artists = <<>>
    /\ failed_artists = <<>>
    /\ zip_file = {}
    /\ settlement = NoSettlement
    /\ collaborators = <<>>
    /\ result = [returned |-> FALSE]

InitBatch ==
    /\ \E cols \in ColumnCases, rows \in Ledgers(BatchRows, MaxRows),
          costs \in Ledgers(CostRows, MaxCostRows) :
          /\ revenue_df = [columns |-> cols[1], rows |-> rows]
          /\ song_df = [columns |-> cols[2], rows |-> costs]
    /\ InitControl
    /\ InitNoMain
    /\ InitNoCell

InitAgg ==
    /\ \E rows \in Arrangements(AggRows, MaxAggRows) :
          revenue_df = [columns |-> RevenueColumns, rows |-> rows]
    /\ song_df = [columns |-> SongColumns,
                  rows |-> <<CostRec("A", Num(2000), Num(300), Num(1700), Num(50))>>]
    /\ InitControl
    /\ InitNoMain
    /\ InitNoCell

Init == InitBatch \/ InitAgg

-----------------------------------------------------------------------------
(* generate_reports *)

\* the artist column taken as it is
unique_skipped(cells) == cells

\* Series.unique(): first appearance order, a blank kept once
RECURSIVE UniqueFrom(_, _)
UniqueFrom(seen, rest) ==
    IF rest = <<>> THEN seen
    ELSE IF InSeq(seen, Head(rest)) THEN UniqueFrom(seen, Tail(rest))
    ELSE UniqueFrom(Append(seen, Head(rest)), Tail(rest))

\* last appearance first
unique_reversed(cells) ==
    LET u == UniqueFrom(<<>>, cells)
    IN  [i \in 1..Len(u) |-> u[Len(u) + 1 - i]]

unique(cells) == UniqueFrom(<<>>, cells)

\* df[col]
RECURSIVE Column(_, _)
Column(rows, col) ==
    IF rows = <<>> THEN <<>> ELSE <<Head(rows)[col]>> \o Column(Tail(rows), col)

\* rename(columns={rights_amount: net}) when only the other name is there
RenamedColumns(cols) ==
    IF "net" \notin cols /\ "rights_amount" \in cols
    THEN (cols \ {"rights_amount"}) \cup {"net"}
    ELSE cols

CleanRow(row, cols) ==
    [c \in DOMAIN row |->
        IF c \in cols THEN Num(clean_numeric_value(row[c])) ELSE row[c]]

\* df[col] = df[col].apply(clean_numeric_value) for each col of cols; the
\* columns then hold numbers
RECURSIVE CleanColumns(_, _)
CleanColumns(rows, cols) ==
    IF rows = <<>> THEN <<>>
    ELSE <<CleanRow(Head(rows), cols)>> \o CleanColumns(Tail(rows), cols)

\* the loop over numeric_columns stops at the first missing column: the
\* columns it has cleaned by then
CleanedBeforeError(cols, present) ==
    {cols[i] : i \in {n \in 1..Len(cols) : \A j \in 1..n : cols[j] \in present}}

\* the exception, if any, that lines 446-459 raise
PreprocessError(rev_cols, song_cols, rows) ==
    IF "net" \notin rev_cols THEN KeyError("net")
    ELSE IF \E i \in 1..Len(numeric_columns) : numeric_columns[i] \notin song_cols
    THEN KeyError(FirstMissing(numeric_columns, song_cols))
    ELSE IF "artist" \notin rev_cols THEN KeyError("artist")
    ELSE IF rows = <<>> THEN "no artist information found"
    ELSE ""

\* df[col].apply(clean_numeric_value) before the loop over the artists
ColumnCalls(cols) ==
    {[on |-> "column", name |-> c, phase |-> "before the loop"] : c \in cols}

Aborted(e) ==
    [returned |-> TRUE, ok |-> FALSE, processed_count |-> 0, error |-> e]

Preprocess ==
    /\ pc = "start"
    /\ \E cols \in {RenamedColumns(revenue_df.columns)},
          rows \in {CleanColumns(revenue_df.rows,
                              {"net"} \cap RenamedColumns(revenue_df.columns))},
          costs \in {IF "net" \in RenamedColumns(revenue_df.columns)
                     THEN CleanColumns(song_df.rows,
                              CleanedBeforeError(numeric_columns, song_df.columns))
                     ELSE song_df.rows} :
       LET e == PreprocessError(cols, song_df.columns, rows)
       IN  /\ clean_calls' =
                 ColumnCalls(({"net"} \cap cols) \cup
                     (IF "net" \in cols
                      THEN CleanedBeforeError(numeric_columns, song_df.columns)
                      ELSE {}))
           /\ revenue_df' = [columns |-> cols, rows |-> rows]
           /\ song_df' = [song_df EXCEPT !.rows = costs]
           /\ IF e # ""
              THEN /\ pc' = "aborted"
                   /\ result' = Aborted(e)
                   /\ UNCHANGED artists
              ELSE /\ pc' = "loop"
                   /\ artists' = unique(Column(rows, "artist"))
                   /\ UNCHANGED result
    /\ UNCHANGED <<idx, processed_artists, failed_artists, zip_file, settlement,
                   collaborators>>
    /\ UNCHANGED <<cell_vars, main_vars>>

\* what the calls after process_data returned in one iteration: the rendered
\* body (empty or not) and whether writing the detail spreadsheet raised
\* (convert_html_to_pdf catches its own exceptions and returns None, so the PDF
\* branch can neither fail the artist nor change the two lists; it is left out)
Outcomes ==
    {[html_content |-> "", excel |-> "not written"],
     [html_content |-> "html", excel |-> "written"],
     [html_content |-> "html", excel |-> "IllegalCharacterError"]}

NotCalled == [html_content |-> "not rendered", excel |-> "not written"]

\* the except clause going over the same artist again
except_retry(artist, r, c) ==
    /\ idx' = idx
    /\ collaborators' = Append(collaborators, c)
    /\ failed_artists' = Append(failed_artists, [artist |-> artist, error |-> r.error])
    /\ UNCHANGED <<processed_artists, zip_file, settlement>>

\* the except clause with break in place of continue
except_break(artist, r, c) ==
    /\ idx' = Len(artists)
    /\ collaborators' = Append(collaborators, c)
    /\ failed_artists' = Append(failed_artists, [artist |-> artist, error |-> r.error])
    /\ UNCHANGED <<processed_artists, zip_file, settlement>>

\* the except clause giving up on the artists that are left as well
except_fail_rest(artist, r, c) ==
    /\ idx' = idx + 1
    /\ collaborators' = Append(collaborators, c)
    /\ failed_artists' = failed_artists \o
          [i \in 1..(Len(artists) - idx) |->
              [artist |-> artists[idx + i], error |-> r.error]]
    /\ UNCHANGED <<processed_artists, zip_file, settlement>>

\* process_data raised: the except clause records the artist, the finally
\* clause reports progress and the loop continues
except_clause(artist, r, c) ==
    /\ idx' = idx + 1
    /\ collaborators' = Append(collaborators, c)
    /\ failed_artists' = Append(failed_artists, [artist |-> artist, error |-> r.error])
    /\ UNCHANGED <<processed_artists, zip_file, settlement>>

\* process_data returned: the rest of the try block
try_body(artist, r, c) ==
    /\ idx' = idx + 1
    /\ collaborators' = Append(collaborators, c)
    /\ settlement' = [artist |-> artist] @@ r
    /\ IF c.html_content = ""
       THEN UNCHANGED <<processed_artists, failed_artists, zip_file>>
       ELSE IF c.excel # "written"
       THEN /\ zip_file' = zip_file \cup {<<"html", artist>>}
            /\ failed_artists' =
                  Append(failed_artists, [artist |-> artist, error |-> c.excel])
            /\ UNCHANGED processed_artists
       ELSE /\ zip_file' = zip_file \cup {<<"html", artist>>, <<"excel", artist>>}
            /\ processed_artists' = Append(processed_artists, artist)
            /\ UNCHANGED failed_artists

\* one pass of the for loop
Iteration(artist, r, c) ==
    IF r.raised THEN except_clause(artist, r, c) ELSE try_body(artist, r, c)

ProcessArtist ==
    /\ pc = "loop"
    /\ idx < Len(artists)
    /\ \E r \in {process_data(revenue_df, song_df, artists[idx + 1])} :
          IF r.raised THEN Iteration(artists[idx + 1], r, NotCalled)
          ELSE \E c \in Outcomes : Iteration(artists[idx + 1], r, c)
    /\ UNCHANGED <<revenue_df, song_df, pc, artists, result>>
    /\ UNCHANGED <<cell_vars, main_vars, clean_calls>>

\* the log with the counts only
log_counts(n_artists, processed, failed) ==
    [total_artists |-> n_artists,
     succeeded     |-> Len(processed),
     failed        |-> Len(failed),
     failed_list   |-> <<>>]

log(n_artists, processed, failed) ==
    [total_artists |-> n_artists,
     succeeded     |-> Len(processed),
     failed        |-> Len(failed),
     failed_list   |-> failed]

verification(artist_list, processed, failed) ==
    [total_artists       |-> Len(artist_list),
     processed_artists   |-> Len(processed),
     failed_artists      |-> failed,
     unprocessed_artists |->
         SelectSeq(artist_list, LAMBDA a : ~InSeq(processed, a))]

Finish ==
    /\ pc = "loop"
    /\ idx = Len(artists)
    /\ pc' = "done"
    /\ zip_file' = zip_file \cup {<<"processing_log.txt", "">>}
    /\ result' = [returned            |-> TRUE,
                  ok                  |-> TRUE,
                  processed_count     |-> Len(processed_artists),
                  log_content         |-> log(Len(artists), processed_artists,
                                              failed_artists),
                  verification_result |-> verification(artists, processed_artists,
                                                       failed_artists)]
    /\ UNCHANGED <<revenue_df, song_df, artists, idx, processed_artists,
                   failed_artists, settlement, collaborators>>
    /\ UNCHANGED <<cell_vars, main_vars, clean_calls>>

Next == Preprocess \/ ProcessArtist \/ Finish

Spec == Init /\ [][Next]_vars

\* the batches the progress of the loop is checked on
InitFair ==
    /\ \E cols \in ColumnCases, rows \in Ledgers(BatchRows, MaxRows - 1),
          costs \in Ledgers(CostRows, MaxCostRows - 1) :
          /\ revenue_df = [columns |-> cols[1], rows |-> rows]
          /\ song_df = [columns |-> cols[2], rows |-> costs]
    /\ InitControl
    /\ InitNoMain
    /\ InitNoCell

\* the loop is a sequential program: a step that can be taken is taken
FairSpec == InitFair /\ [][Next]_vars /\ WF_vars(Next)

-----------------------------------------------------------------------------
(* The normalizers on one cell *)

Alphabet == {"1", "2", ",", " ", "-", "a"}

\* the strings over Alphabet of length at most n
RECURSIVE Strings(_)
Strings(n) ==
    IF n = 0 THEN {<<>>}
    ELSE LET shorter == Strings(n - 1)
         IN  shorter \cup {Append(q, c) : q \in shorter, c \in Alphabet}

\* cells of every kind that read_excel and read_csv hand over
Cells ==
    {Str(q) : q \in Strings(MaxStrLen)}
        \cup {Str(<<"1", ",", "2", "3", "4">>),
              Str(<<" ", "1", ",", "2", "3", "4", " ">>),
              Str(<<"a", "b", "c">>),
              Str(<<"i", "n", "f">>), Str(<<"-", "i", "n", "f">>),
              Str(<<"i", "n", "f", "i", "n", "i", "t", "y">>),
              Str(<<"n", "a", "n">>)}
        \cup {Num(42), Num(0), Num(0 - 7), Inf}
        \cup {Blank, None}
        \cup {List(<<>>), List(<<Blank>>), List(<<Num(1)>>), List(<<Num(1), Num(2)>>)}

InitCell ==
    /\ value \in Cells
    /\ cleaned = [app |-> NotCalled_clean, old1 |-> NotCalled_clean]
    /\ revenue_df = [columns |-> RevenueColumns, rows |-> <<>>]
    /\ song_df = [columns |-> SongColumns, rows |-> <<>>]
    /\ InitControl
    /\ InitNoMain

\* clean_numeric_value of app.py called on the cell
Clean_app ==
    /\ ~cleaned.app.called
    /\ cleaned' = [cleaned EXCEPT !.app =
                      [called |-> TRUE, raised |-> "",
                       finite |-> CleanFloat(value).finite,
                       val |-> clean_numeric_value(value)]]
    /\ UNCHANGED <<value, batch_vars, main_vars, clean_calls>>

\* clean_numeric_value of app_old1.py called on the cell
Clean_old1 ==
    /\ ~cleaned.old1.called
    /\ cleaned' = [cleaned EXCEPT !.old1 =
                      [called |-> TRUE, finite |-> TRUE]
                          @@ old1_clean_numeric_value(value)]
    /\ UNCHANGED <<value, batch_vars, main_vars, clean_calls>>

NextCell == Clean_app \/ Clean_old1

CellSpec == InitCell /\ [][NextCell]_vars

-----------------------------------------------------------------------------
(* app_old1.py: the totals check of main and the creator batch.  Views are  *)
(* whole counts; revenue is held in half units and the commission rate in   *)
(* percent.                                                                 *)

\* one unit of each metric, as the model holds it
ViewsUnit == 1
RevenueUnit == 2

StatRow(id, views, revenue) == [id |-> id, views |-> views, revenue |-> revenue]

InfoRow(id, percent) == [id |-> id, percent |-> percent]

Abs(x) == IF x < 0 THEN 0 - x ELSE x

\* Series.sum(): blank cells are skipped
RECURSIVE ColumnSum(_, _)
ColumnSum(rows, col) ==
    IF rows = <<>> THEN 0
    ELSE (IF Head(rows)[col].kind = "num" THEN Head(rows)[col].val ELSE 0)
         + ColumnSum(Tail(rows), col)

\* the comparison with <= in place of <
WithinOne_leq(declared, recomputed, unit) ==
    declared.kind = "num" /\ Abs(declared.val - recomputed) <= unit

\* abs(declared - recomputed) < 1; a comparison with not-a-number is false
WithinOne(declared, recomputed, unit) ==
    declared.kind = "num" /\ Abs(declared.val - recomputed) < unit

summary_row(original_df) == original_df[1]

data_rows(original_df) == Tail(original_df)

RowsOf(rows, creator_id) == SelectSeq(rows, LAMBDA r : CellEq(r.id, creator_id))

\* ids of the groups of groupby(id): blank ids are dropped
GroupIds(rows) == {rows[i].id : i \in 1..Len(rows)} \ {NaN}

InfoIds(info) == {info[i].id : i \in 1..Len(info)}

\* commission_rates.get(creator_id, 0)
RateOf(info, creator_id) ==
    IF creator_id \in InfoIds(info)
    THEN info[CHOOSE i \in 1..Len(info) : info[i].id = creator_id].percent
    ELSE Num(0)

RECURSIVE SumAfter(_, _, _)
SumAfter(ids, rows, info) ==
    IF ids = {} THEN 0
    ELSE LET c == CHOOSE x \in ids : TRUE
         IN  ColumnSum(RowsOf(rows, c), "revenue") * RateOf(info, c).val
             + SumAfter(ids \ {c}, rows, info)

\* DataValidator._calculate_total_stats; total_revenue_after is in half units
\* times percent, and not-a-number when a rate is blank
calculate_total_stats(original_df, info) ==
    LET rows == data_rows(original_df)
    IN  [creator_count         |-> Cardinality({rows[i].id : i \in 1..Len(rows)}),
         total_views_summary   |-> summary_row(original_df).views,
         total_revenue_summary |-> summary_row(original_df).revenue,
         total_views_data      |-> ColumnSum(rows, "views"),
         total_revenue_data    |-> ColumnSum(rows, "revenue"),
         total_revenue_after   |->
             IF \E c \in GroupIds(rows) : RateOf(info, c).kind # "num"
             THEN Blank
             ELSE Num(SumAfter(GroupIds(rows), rows, info))]

\* each flag set only when both totals are within one unit
main_match_joint(stats) ==
    [computed      |-> TRUE,
     views_match   |-> /\ WithinOne(stats.total_views_summary,
                                    stats.total_views_data, ViewsUnit)
                       /\ WithinOne(stats.total_revenue_summary,
                                    stats.total_revenue_data, RevenueUnit),
     revenue_match |-> /\ WithinOne(stats.total_views_summary,
                                    stats.total_views_data, ViewsUnit)
                       /\ WithinOne(stats.total_revenue_summary,
                                    stats.total_revenue_data, RevenueUnit)]

\* lines 726-727 of main
main_match(stats) ==
    [computed      |-> TRUE,
     views_match   |-> WithinOne(stats.total_views_summary,
                                 stats.total_views_data, ViewsUnit),
     revenue_match |-> WithinOne(stats.total_revenue_summary,
                                 stats.total_revenue_data, RevenueUnit)]

\* lines 701-737 of main: DataValidator is built and the totals are compared;
\* iloc[0] of an empty table raises and the run ends with that error
Validate ==
    /\ main_pc = "uploaded"
    /\ IF statistics_df = <<>>
       THEN /\ main_pc' = "crashed"
            /\ UNCHANGED <<total_stats, match>>
       ELSE /\ main_pc' = "validated"
            /\ total_stats' = calculate_total_stats(statistics_df, creator_info)
            /\ match' = main_match(calculate_total_stats(statistics_df, creator_info))
    /\ UNCHANGED <<statistics_df, creator_info, creator_idx, failed_creators,
                   reports_data, excel_files, processed_full_data,
                   validation_results, batch_result, status_container,
                   session_state>>
    /\ UNCHANGED <<batch_vars, cell_vars, clean_calls>>

\* process_data is entered
begin_batch ==
    /\ main_pc' = "running"
    /\ UNCHANGED <<statistics_df, creator_info, total_stats, match, creator_idx,
                   failed_creators, reports_data, excel_files,
                   processed_full_data, validation_results, batch_result,
                   status_container, session_state>>
    /\ UNCHANGED <<batch_vars, cell_vars, clean_calls>>

\* the button starting the batch only when both totals match
StartBatch_matched ==
    /\ main_pc = "validated"
    /\ match.views_match /\ match.revenue_match
    /\ begin_batch

\* lines 764-791 of main: the button is pressed and process_data is called
StartBatch ==
    /\ main_pc = "validated"
    /\ begin_batch

\* int() of a quotient: truncation toward zero
TruncDiv(a, b) == IF a < 0 THEN 0 - ((0 - a) \div b) ELSE a \div b

FillRow(r) ==
    [r EXCEPT !.views = IF @.kind = "num" THEN @ ELSE Num(0),
              !.revenue = IF @.kind = "num" THEN @ ELSE Num(0)]

\* fillna(0) of the two metric columns
RECURSIVE fillna(_)
fillna(rows) ==
    IF rows = <<>> THEN <<>> ELSE <<FillRow(Head(rows))>> \o fillna(Tail(rows))

\* lines 476-478 and 502-508: the totals of the report, in whole units;
\* clean_numeric_value truncates the revenue sum, int() the amount after
\* commission
report_data(creator_id, creator_data, percent) ==
    LET total_views == ColumnSum(creator_data, "views")
        total_revenue_before ==
            TruncDiv(ColumnSum(creator_data, "revenue"), RevenueUnit)
    IN  [creatorName  |-> creator_id,
         totalViews   |-> total_views,
         totalRevenue |-> TruncDiv(total_revenue_before * percent, 100)]

\* what writing the spreadsheet and rendering the two reports came to
CreatorOutcomes ==
    {[excel |-> "raised", html |-> "None", pdf |-> "None"],
     [excel |-> "written", html |-> "None", pdf |-> "None"],
     [excel |-> "written", html |-> "html", pdf |-> "None"],
     [excel |-> "written", html |-> "html", pdf |-> "pdf"]}

Reports(o, data) ==
    {[name |-> n, data |-> data] : n \in {o.html, o.pdf} \ {"None"}}

\* lines 476-477: clean_numeric_value on the two sums of the creator's rows
TotalCalls ==
    {[on |-> "total", name |-> n, phase |-> "in the loop"] :
        n \in {"views", "revenue"}}

\* lines 218-219 of create_video_data: clean_numeric_value on the cells of the
\* rows of the report
CellCalls ==
    {[on |-> "cell", name |-> n, phase |-> "in the loop"] :
        n \in {"views", "revenue after commission"}}

\* lines 520-523: the except clause of the loop
Message(creator_id, error) == [creator |-> creator_id, error |-> error]

\* lines 457-524: one pass of the loop over the creator ids
ProcessCreator ==
    /\ main_pc = "running"
    /\ creator_idx < Len(creator_info)
    /\ creator_idx' = creator_idx + 1
    /\ LET creator_id == creator_info[creator_idx + 1].id
           percent == creator_info[creator_idx + 1].percent
           creator_data == RowsOf(statistics_df, creator_id)
       IN  IF creator_data = <<>>
           THEN \* no rows: the id is appended and nothing is shown
                /\ failed_creators' = Append(failed_creators, creator_id)
                /\ UNCHANGED <<reports_data, excel_files, processed_full_data,
                               status_container, clean_calls>>
           ELSE IF percent.kind # "num"
           THEN \* int() of not-a-number raises ValueError
                /\ failed_creators' = Append(failed_creators, creator_id)
                /\ status_container' =
                      Append(status_container,
                             Message(creator_id, "cannot convert float NaN to integer"))
                /\ clean_calls' = clean_calls \cup TotalCalls
                /\ UNCHANGED <<reports_data, excel_files, processed_full_data>>
           ELSE \E o \in CreatorOutcomes :
                /\ processed_full_data' = processed_full_data \o fillna(creator_data)
                /\ IF o.excel = "raised"
                   THEN /\ failed_creators' = Append(failed_creators, creator_id)
                        /\ status_container' =
                              Append(status_container,
                                     Message(creator_id, "IllegalCharacterError"))
                        /\ clean_calls' = clean_calls \cup TotalCalls
                        /\ UNCHANGED <<reports_data, excel_files>>
                   ELSE /\ excel_files' = excel_files \cup {creator_id}
                        /\ reports_data' = reports_data \cup
                              Reports(o, report_data(creator_id, fillna(creator_data),
                                                     percent.val))
                        /\ clean_calls' = clean_calls \cup TotalCalls \cup CellCalls
                        /\ UNCHANGED <<failed_creators, status_container>>
    /\ UNCHANGED <<statistics_df, creator_info, total_stats, match, main_pc,
                   validation_results, batch_result, session_state>>
    /\ UNCHANGED <<batch_vars, cell_vars>>

\* lines 140-153 of show_validation_results: the totals of the detail rows
\* against the totals of the processed rows
shown_match(stats, processed_df) ==
    [computed      |-> TRUE,
     views_match   |-> WithinOne(Num(stats.total_views_data),
                                 ColumnSum(processed_df, "views"), ViewsUnit),
     revenue_match |-> WithinOne(Num(stats.total_revenue_data),
                                 ColumnSum(processed_df, "revenue"), RevenueUnit)]

\* DataValidator._calculate_creator_stats: the totals of each creator id
calculate_creator_stats(rows) ==
    {[id      |-> c,
      views   |-> ColumnSum(RowsOf(rows, c), "views"),
      revenue |-> ColumnSum(RowsOf(rows, c), "revenue")] : c \in GroupIds(rows)}

Compared(o, p) ==
    [id                |-> o.id,
     views_original    |-> o.views,
     views_processed   |-> p.views,
     views_match       |-> WithinOne(Num(o.views), p.views, ViewsUnit),
     revenue_original  |-> o.revenue,
     revenue_processed |-> p.revenue,
     revenue_match     |-> WithinOne(Num(o.revenue), p.revenue, RevenueUnit)]

\* DataValidator.compare_creator_stats: processed_creator_stats is
\* self._calculate_creator_stats(), the totals of the original rows again;
\* processed_df is not read
compare_creator_stats(rows, processed_df) ==
    {Compared(o, p) : <<o, p>> \in
        {q \in calculate_creator_stats(rows)
                  \X calculate_creator_stats(rows) : q[1].id = q[2].id}}

\* lines 533-534: the status process_data keeps for later display
failed_status(failed) == [set |-> TRUE, failed |-> failed]

\* lines 803-812 of main: with reports and spreadsheets the results are
\* stored and failed_status is set to the text that names no creator
stored_by_main(session) ==
    [session EXCEPT !.reports_generated = TRUE,
                    !.failed_status = failed_status(<<>>)]

\* lines 526-591 and 803-815: the end of process_data and what main gets.
\* With reports and spreadsheets the status is kept and the validation is
\* shown; its per-creator table looks up the rate of every id of the detail
\* rows and raises KeyError for an id creator_info does not have, which the
\* outer except clause turns into three Nones.  With no report or no
\* spreadsheet the function returns None, and unpacking it in main raises
\* TypeError, which main shows as an error.  (No mail account is given, the
\* mail step is skipped.)
FinishBatch ==
    /\ main_pc = "running"
    /\ creator_idx = Len(creator_info)
    /\ main_pc' = "done"
    /\ IF reports_data # {} /\ excel_files # {}
       THEN IF GroupIds(data_rows(statistics_df)) \subseteq InfoIds(creator_info)
            THEN /\ validation_results' =
                       shown_match(calculate_total_stats(statistics_df, creator_info),
                                   processed_full_data)
                       @@ [creators |-> compare_creator_stats(
                                            data_rows(statistics_df),
                                            processed_full_data)]
                 /\ batch_result' = "reports, spreadsheets, processed data"
                 /\ session_state' =
                       stored_by_main([session_state EXCEPT
                           !.failed_status = failed_status(failed_creators)])
            ELSE /\ validation_results' =
                       shown_match(calculate_total_stats(statistics_df, creator_info),
                                   processed_full_data)
                       @@ [creators |-> {}]
                 /\ batch_result' = "None, None, None"
                 /\ session_state' = [session_state EXCEPT
                       !.failed_status = failed_status(failed_creators)]
       ELSE /\ batch_result' = "None"
            /\ UNCHANGED <<validation_results, session_state>>
    /\ UNCHANGED <<statistics_df, creator_info, total_stats, match, creator_idx,
                   failed_creators, reports_data, excel_files, processed_full_data,
                   status_container>>
    /\ UNCHANGED <<batch_vars, cell_vars, clean_calls>>

\* detail rows; c9 is an id creator_info does not have
DetailRows ==
    {StatRow("c1", Num(2), Num(3)), StatRow("c1", Num(1), Blank),
     StatRow("c2", Num(0), Num(2)), StatRow("c9", Num(1), Num(1))}

\* summary rows: the id cell is blank, a total may be blank
SummaryRows ==
    {StatRow(NaN, v, r) : v \in {Blank, Num(1), Num(2), Num(3)},
                          r \in {Blank, Num(2), Num(3), Num(4), Num(5)}}

CreatorInfos ==
    {<<InfoRow("c1", Num(50)), InfoRow("c2", Num(100))>>,
     <<InfoRow("c3", Num(30)), InfoRow("c1", Num(50))>>,
     <<InfoRow("c2", Blank), InfoRow("c1", Num(33))>>,
     <<InfoRow("c3", Num(30))>>}

InitMain ==
    /\ statistics_df \in
          {<<>>} \cup {<<t>> \o d : t \in SummaryRows,
                                   d \in Ledgers(DetailRows, MaxDetailRows)}
    /\ creator_info \in CreatorInfos
    /\ total_stats = NoStats
    /\ match = NotComputed
    /\ main_pc = "uploaded"
    /\ InitLoop_old1
    /\ revenue_df = [columns |-> RevenueColumns, rows |-> <<>>]
    /\ song_df = [columns |-> SongColumns, rows |-> <<>>]
    /\ InitControl
    /\ InitNoCell

NextMain == Validate \/ StartBatch \/ ProcessCreator \/ FinishBatch

MainSpec == InitMain /\ [][NextMain]_vars


-----------------------------------------------------------------------------
(* Properties *)

Succeeded(a) == InSeq(processed_artists, a)

Failed(a) == \E j \in 1..Len(failed_artists) : failed_artists[j].artist = a

NoRepeat(q) == \A i, j \in 1..Len(q) : i # j => q[i] # q[j]

FailedNames == [j \in 1..Len(failed_artists) |-> failed_artists[j].artist]

C2_ListsDisjoint ==
    /\ \A i \in 1..Len(processed_artists) : ~Failed(processed_artists[i])
    /\ NoRepeat(processed_artists)
    /\ NoRepeat(FailedNames)

C2_Witness ==
    /\ pc = "done"
    /\ Len(processed_artists) >= 2
    /\ Len(failed_artists) >= 1

\* number of cost ledger rows whose artist cell equals a
CostCount(a) ==
    Cardinality({j \in 1..Len(song_df.rows) :
                    song_df.rows[j].artist # NaN /\ a # NaN
                    /\ song_df.rows[j].artist = a})

\* every artist but artists[k] has one cost row, and rendering and writing
\* went through for each of them that got that far
OnlyCostMissing(k) ==
    /\ CostCount(artists[k]) = 0
    /\ \A i \in 1..Len(artists) :
          i # k => /\ CostCount(artists[i]) = 1
                   /\ i \in DOMAIN collaborators =>
                          /\ collaborators[i].html_content = "html"
                          /\ collaborators[i].excel = "written"

\* C3: in a finished batch over complete tables in which exactly one artist K
\* has no cost row and every other artist has valid data, the failed list is
\* exactly [K] and all others are in the succeeded list, wherever K stands in
\* the processing order.
C3_FailureIsolated ==
    (pc = "done" /\ "artist" \in song_df.columns
        /\ \A i \in 1..Len(group_columns) : group_columns[i] \in revenue_df.columns)
    => \A k \in 1..Len(artists) :
          OnlyCostMissing(k) =>
              /\ FailedNames = <<artists[k]>>
              /\ \A i \in 1..Len(artists) : i # k => Succeeded(artists[i])
              /\ Len(processed_artists) = Len(artists) - 1

C3_Witness ==
    /\ pc = "done"
    /\ Len(artists) = 3
    /\ OnlyCostMissing(2)
    /\ "artist" \in song_df.columns
    /\ revenue_df.columns = RevenueColumns
    /\ FailedNames = <<artists[2]>>
    /\ processed_artists = <<artists[1], artists[3]>>

\* C4: the deduction step fails for an artist whenever the number of cost
\* rows matching that artist is not exactly one (none, or two and more): the
\* artist ends Failed.
C4_AmbiguousCostFails ==
    pc \in {"loop", "done"} =>
        \A i \in 1..idx : CostCount(artists[i]) # 1 => Failed(artists[i])

RECURSIVE SumCells(_)
SumCells(rows) ==
    IF rows = <<>> THEN 0 ELSE Head(rows).net.val + SumCells(Tail(rows))

\* C5: after aggregation the revenue of the service rows and the revenue of
\* the album rows add up to the same number, which is totalRevenue and the sum
\* of the net revenue of the artist's source rows, blank album or category
\* cells included.
C5_SumsAgree ==
    ~settlement.raised =>
        /\ SumNet(settlement.service_summary) = SumNet(settlement.album_summary)
        /\ SumNet(settlement.album_summary) = settlement.total_revenue
        /\ settlement.total_revenue
              = SumCells(service_rows(revenue_df, settlement.artist))

NoRevenueDataError == "NoRevenueDataError"

\* C6: an artist whose filtered revenue rows are empty is recorded as Failed
\* with a reason naming the missing revenue data, and gets no settlement.
C6_NoRevenueSignalled ==
    pc \in {"loop", "done"} =>
        \A i \in 1..idx :
            service_rows(revenue_df, artists[i]) = <<>> =>
                /\ \E j \in 1..Len(failed_artists) :
                      /\ failed_artists[j].artist = artists[i]
                      /\ failed_artists[j].error = NoRevenueDataError
                /\ ~Succeeded(artists[i])

\* C7: revenueAfterDeduction is totalRevenue minus the current deduction of
\* the artist's cost record and payableAmount is revenueAfterDeduction times
\* the share rate, unclamped: 1500, 300 and 50% give 1200 and 600; 200 and
\* 300 give -100 and -100 times the rate.
C7_DeductionArithmetic ==
    ~settlement.raised =>
        LET m == SelectSeq(song_df.rows, LAMBDA c : c.artist = settlement.artist)
            after == settlement.deduction_data.applied_amount
            payable == settlement.distribution_data.amount
            ded == m[1].ded.val
            rate == m[1].rate.val
        IN  /\ after = settlement.total_revenue - ded
            /\ payable = after * rate
            /\ settlement.distribution_data.rate = rate
            /\ (settlement.total_revenue = 1500 /\ ded = 300 /\ rate = 50)
                  => (after = 1200 /\ payable = 600 * 100)
            /\ (settlement.total_revenue = 200 /\ ded = 300)
                  => (after = 0 - 100 /\ payable = (0 - 100) * rate)

C7_Witness ==
    /\ ~settlement.raised
    /\ Succeeded(settlement.artist)
    /\ settlement.total_revenue = 200
    /\ settlement.deduction_data.applied_amount = 0 - 100
    /\ settlement.distribution_data.amount = 0 - 5000

\* rank of a category value in the priority list the claim gives for its column
C8_Rank(col, v) ==
    IF col = "major"
    THEN CASE v = "Domestic" -> 0 [] v = "Overseas" -> 1 [] v = "YouTube" -> 2
           [] OTHER -> 3
    ELSE IF col = "minor"
    THEN CASE v = "Advertising" -> 0 [] v = "Subscription" -> 1 [] v = "Other" -> 2
           [] v = "Streaming" -> 3 [] OTHER -> 4
    ELSE CASE v = "Other Service" -> 0 [] v = "Streaming" -> 1
           [] v = "Streaming (Audio)" -> 2 [] v = "Art Track" -> 3
           [] v = "Sound Recording" -> 4 [] OTHER -> 5

C8_Leq(r1, r2) ==
    \/ LexPos("album", r1.album) < LexPos("album", r2.album)
    \/ /\ r1.album = r2.album
       /\ TupleLeq(<<C8_Rank("major", r1.major), C8_Rank("minor", r1.minor),
                     C8_Rank("service", r1.service)>>,
                   <<C8_Rank("major", r2.major), C8_Rank("minor", r2.minor),
                     C8_Rank("service", r2.service)>>)

\* C8: the service rows are ordered by album ascending, then by the rank of
\* the major, the minor and the service category in their priority lists,
\* unlisted values after all listed ones: each row is less than or equal to
\* the next one in that order.
C8_RowsOrdered ==
    ~settlement.raised =>
        \A i \in 1..(Len(settlement.service_summary) - 1) :
            C8_Leq(settlement.service_summary[i], settlement.service_summary[i + 1])

C8_Witness ==
    /\ ~settlement.raised
    /\ Len(settlement.service_summary) = 3
    /\ settlement.service_summary[1].major = "Domestic"
    /\ settlement.service_summary[2].major = "YouTube"
    /\ settlement.service_summary[3].major = "Misc"

\* a required column is missing from a table, or a table has no rows
InputProblem ==
    \/ revenue_df.rows = <<>>
    \/ song_df.rows = <<>>
    \/ ~(SongColumns \subseteq song_df.columns)
    \/ ~((RevenueColumns \ {"net"}) \subseteq revenue_df.columns)
    \/ ({"net", "rights_amount"} \cap revenue_df.columns) = {}

\* C9: with a required column missing from either table, or either table
\* empty, the batch aborts before any artist is processed: no artist is
\* recorded as succeeded or failed and the caller gets the error result.
C9_InvalidInputAborts ==
    InputProblem =>
        /\ pc \in {"start", "aborted"}
        /\ idx = 0
        /\ processed_artists = <<>>
        /\ failed_artists = <<>>
        /\ result.returned => ~result.ok

Completed ==
    /\ pc = "done"
    /\ result.returned /\ result.ok
    /\ result.processed_count = Len(processed_artists)
    /\ result.log_content.failed = Len(failed_artists)
    /\ result.verification_result.failed_artists = failed_artists
    /\ \A i \in 1..Len(artists) : Succeeded(artists[i]) \/ Failed(artists[i])

IsStr(v, s) == v.kind = "str" /\ v.val = s

\* blanks, then digits and separators with a digit among them, then blanks
SeparatedNumber(v) ==
    /\ v.kind = "str"
    /\ \E i \in 0..Len(v.val), j \in 1..(Len(v.val) + 1) :
          /\ i < j
          /\ \A k \in 1..i : v.val[k] = " "
          /\ \A k \in j..Len(v.val) : v.val[k] = " "
          /\ \A k \in (i + 1)..(j - 1) : IsDigit(v.val[k]) \/ v.val[k] = ","
          /\ \E k \in (i + 1)..(j - 1) : IsDigit(v.val[k])

\* C11: clean_numeric_value of app.py gives 1234 for "1,234", 0 for None and
\* NaN, 0 for the empty string, 0 for "abc" and 42 for 42; for a numeric string
\* with thousands separators and surrounding whitespace it gives the number
\* its digits spell.
C11_NormalizerExamples ==
    cleaned.app.called =>
        /\ IsStr(value, <<"1", ",", "2", "3", "4">>) => cleaned.app.val = 1234
        /\ value.kind \in {"nan", "none"} => cleaned.app.val = 0
        /\ IsStr(value, <<>>) => cleaned.app.val = 0
        /\ IsStr(value, <<"a", "b", "c">>) => cleaned.app.val = 0
        /\ (value.kind = "num" /\ value.val = 42) => cleaned.app.val = 42
        /\ SeparatedNumber(value) =>
              cleaned.app.val = DigitsValue(SelectSeq(value.val, IsDigit), 0)

C11_Witness ==
    /\ cleaned.app.called
    /\ IsStr(value, <<" ", "1", ",", "2", "3", "4", " ">>)
    /\ cleaned.app.val = 1234

\* C12: for a cell of every kind (number, numeric string, string spelling an
\* infinity or not-a-number, blank, null, non-scalar) each of the two
\* clean_numeric_value functions returns a finite number and does not raise.
C12_FiniteNeverRaises ==
    /\ cleaned.app.called => cleaned.app.raised = "" /\ cleaned.app.finite
    /\ cleaned.old1.called => cleaned.old1.raised = "" /\ cleaned.old1.finite

\* distance between the declared total of the summary row and the total of
\* the detail rows, in the units the model holds the metric in
ViewsDistance ==
    Abs(summary_row(statistics_df).views.val
        - ColumnSum(data_rows(statistics_df), "views"))

RevenueDistance ==
    Abs(summary_row(statistics_df).revenue.val
        - ColumnSum(data_rows(statistics_df), "revenue"))

DeclaredViews == summary_row(statistics_df).views.kind = "num"

DeclaredRevenue == summary_row(statistics_df).revenue.kind = "num"

\* C13: a declared total more than 1 unit away from the recomputed total gives
\* a false match flag, and one at most 1 unit away (exactly 1 included) gives
\* a true match flag.
C13_MatchWithinOneUnit ==
    match.computed =>
        /\ DeclaredViews =>
              /\ ViewsDistance > ViewsUnit => ~match.views_match
              /\ ViewsDistance <= ViewsUnit => match.views_match
        /\ DeclaredRevenue =>
              /\ RevenueDistance > RevenueUnit => ~match.revenue_match
              /\ RevenueDistance <= RevenueUnit => match.revenue_match

\* C13 as amended: a declared total 1 unit or more away from the recomputed
\* total gives a false match flag, and one less than 1 unit away gives a true
\* match flag.
C13_MatchBelowOneUnit ==
    match.computed =>
        /\ DeclaredViews =>
              /\ ViewsDistance >= ViewsUnit => ~match.views_match
              /\ ViewsDistance < ViewsUnit => match.views_match
        /\ DeclaredRevenue =>
              /\ RevenueDistance >= RevenueUnit => ~match.revenue_match
              /\ RevenueDistance < RevenueUnit => match.revenue_match

\* views exactly 1 away and flagged, revenue half a unit away and matching
C13_Witness ==
    /\ match.computed
    /\ DeclaredViews /\ ViewsDistance = ViewsUnit /\ ~match.views_match
    /\ DeclaredRevenue /\ RevenueDistance = 1 /\ match.revenue_match

Mismatch == match.computed /\ ~(match.views_match /\ match.revenue_match)

Visited(i) ==
    LET creator_id == creator_info[i].id
        rows == RowsOf(data_rows(statistics_df), creator_id)
    IN  /\ rows = <<>> => InSeq(failed_creators, creator_id)
        /\ (rows # <<>> /\ creator_info[i].percent.kind = "num") =>
              RowsOf(processed_full_data, creator_id) = fillna(rows)

\* C14: totals that do not match raise nothing and stop nothing: the run does
\* not end in an error, the batch can be started, it goes over every creator
\* as the detail rows alone determine, and the flags main computed stay as
\* they were.
C14_MismatchIsData ==
    Mismatch =>
        /\ main_pc # "crashed"
        /\ main_pc = "validated" => ENABLED StartBatch
        /\ main_pc \in {"running", "done"} =>
              \A i \in 1..creator_idx : Visited(i)
        /\ main_pc = "done" => creator_idx = Len(creator_info)
        /\ match = main_match(calculate_total_stats(statistics_df, creator_info))

C14_Witness ==
    /\ Mismatch
    /\ main_pc = "done"
    /\ Len(creator_info) = 2
    /\ batch_result = "reports, spreadsheets, processed data"
    /\ failed_creators # <<>>

\* C18: each flag is true exactly when its own declared total is less than 1
\* unit away from its recomputed total, in main and in the validation shown
\* after the batch; neither flag reads the other metric.
C18_StrictPerMetric ==
    /\ match.computed =>
          /\ match.views_match <=> (DeclaredViews /\ ViewsDistance < ViewsUnit)
          /\ match.revenue_match <=>
                (DeclaredRevenue /\ RevenueDistance < RevenueUnit)
    /\ validation_results.computed =>
          /\ validation_results.views_match <=>
                Abs(ColumnSum(data_rows(statistics_df), "views")
                    - ColumnSum(processed_full_data, "views")) < ViewsUnit
          /\ validation_results.revenue_match <=>
                Abs(ColumnSum(data_rows(statistics_df), "revenue")
                    - ColumnSum(processed_full_data, "revenue")) < RevenueUnit

\* one metric matches while the other does not, in main and afterwards
C18_Witness ==
    /\ match.computed /\ match.revenue_match /\ ~match.views_match
    /\ validation_results.computed
    /\ validation_results.views_match /\ ~validation_results.revenue_match

\* the exception the processing of artists[i] ended with, "" if none: a missing
\* grouping column, a missing artist column of the cost table, no cost row, or
\* the error of the spreadsheet writer
OwnReason(i) ==
    IF \E n \in 1..Len(group_columns) : group_columns[n] \notin revenue_df.columns
    THEN KeyError(FirstMissing(group_columns, revenue_df.columns))
    ELSE IF "artist" \notin song_df.columns THEN KeyError("artist")
    ELSE IF CostCount(artists[i]) = 0 THEN IndexError
    ELSE IF collaborators[i].html_content # "" /\ collaborators[i].excel # "written"
    THEN collaborators[i].excel
    ELSE ""

\* C15: every entry of the failed list is an artist with a non-empty reason,
\* the reason is the one that artist's own failure produced, every artist
\* whose processing raised keeps its entry while later artists are processed,
\* and the final result and the log carry the same entries.
C15_ReasonsKept ==
    pc \in {"loop", "done"} =>
        /\ \A j \in 1..Len(failed_artists) :
              /\ failed_artists[j].error # ""
              /\ \E i \in 1..idx :
                    /\ artists[i] = failed_artists[j].artist
                    /\ failed_artists[j].error = OwnReason(i)
        /\ \A i \in 1..idx :
              OwnReason(i) # "" =>
                  \E j \in 1..Len(failed_artists) :
                      failed_artists[j] = [artist |-> artists[i], error |-> OwnReason(i)]
        /\ pc = "done" =>
              /\ result.verification_result.failed_artists = failed_artists
              /\ result.log_content.failed_list = failed_artists

\* the first artist failed, two more were processed, the last one succeeded
C15_Witness ==
    /\ pc = "done"
    /\ Len(artists) = 3
    /\ failed_artists # <<>>
    /\ failed_artists[1] = [artist |-> artists[1], error |-> IndexError]
    /\ Succeeded(artists[3])
    /\ result.log_content.failed_list[1].error = IndexError

FailedIn(failed, a) == \E j \in 1..Len(failed) : failed[j].artist = a

EntriesOf(failed, a) == SelectSeq(failed, LAMBDA e : e.artist = a)

\* one step of the batch, seen from each artist
C16_Step ==
    /\ \A i \in 1..Len(artists) :
          /\ InSeq(processed_artists, artists[i]) =>
                /\ InSeq(processed_artists', artists[i])
                /\ ~FailedIn(failed_artists', artists[i])
          /\ FailedIn(failed_artists, artists[i]) =>
                /\ EntriesOf(failed_artists', artists[i])
                      = EntriesOf(failed_artists, artists[i])
                /\ ~InSeq(processed_artists', artists[i])
    /\ Len(collaborators') > Len(collaborators) =>
          /\ idx' = idx + 1
          /\ ~InSeq(processed_artists, artists[idx + 1])
          /\ ~FailedIn(failed_artists, artists[idx + 1])
          /\ \A i \in 1..idx : artists[i] # artists[idx + 1]

\* C16: an artist is taken into processing at most once per batch, an artist
\* that is Succeeded or Failed stays so with the same entry, and a failed
\* artist is never processed again.
C16_TerminalStatesFinal == [][C16_Step]_vars

C16_Witness ==
    /\ pc = "loop"
    /\ idx = 2
    /\ Failed(artists[1])
    /\ Succeeded(artists[2])
    /\ Len(artists) = 3

\* two service rows with the same album and the same three category ranks
C19_Tie(r1, r2) ==
    /\ r1.album = r2.album
    /\ C8_Rank("major", r1.major) = C8_Rank("major", r2.major)
    /\ C8_Rank("minor", r1.minor) = C8_Rank("minor", r2.minor)
    /\ C8_Rank("service", r1.service) = C8_Rank("service", r2.service)

\* C19: two service rows that tie on album and on the three category ranks
\* stand in the order grouping produced them in (ascending group key), so the
\* row order is a total order fixed by the input.
C19_TiesKeepGroupingOrder ==
    ~settlement.raised =>
        \A i, j \in 1..Len(settlement.service_summary) :
            (i < j /\ C19_Tie(settlement.service_summary[i],
                              settlement.service_summary[j]))
            => KeyLess(group_columns,
                       KeyOf(settlement.service_summary[i], group_columns),
                       KeyOf(settlement.service_summary[j], group_columns))

\* the rows of the unlisted categories Etc and Misc tie; the ledger has Misc
\* first, the summary Etc first
C19_Witness ==
    /\ ~settlement.raised
    /\ Len(revenue_df.rows) >= 2
    /\ revenue_df.rows[1].major = "Misc"
    /\ Len(settlement.service_summary) >= 2
    /\ settlement.service_summary[1].major = "Etc"
    /\ settlement.service_summary[2].major = "Misc"
    /\ C19_Tie(settlement.service_summary[1], settlement.service_summary[2])

\* the distinct values of the key columns in the rows
Combinations(rows, cols) == {KeyOf(rows[i], cols) : i \in 1..Len(rows)}

\* one row per combination, none else, each with the sum of its source rows
OneRowEach(summary, rows, cols) ==
    /\ Len(summary) = Cardinality(Combinations(rows, cols))
    /\ Combinations(summary, cols) = Combinations(rows, cols)
    /\ \A i \in 1..Len(summary) :
          summary[i].net = SumWhere(rows, cols, KeyOf(summary[i], cols))

\* C20: the service summary has exactly one row for each (album, major, minor,
\* service) combination of the artist's revenue rows and no other row, each
\* with the sum of the net revenue of its source rows; the album summary has
\* one row per album of those rows, in ascending album order.
C20_OneRowPerCombination ==
    ~settlement.raised =>
        LET rows == service_rows(revenue_df, settlement.artist)
        IN  /\ OneRowEach(settlement.service_summary, rows, group_columns)
            /\ OneRowEach(settlement.album_summary, rows, <<"album">>)
            /\ \A i \in 1..(Len(settlement.album_summary) - 1) :
                  LexPos("album", settlement.album_summary[i].album)
                      < LexPos("album", settlement.album_summary[i + 1].album)

\* the ledger with the rows of artist a only
OwnRows(df, a) == [df EXCEPT !.rows = SelectSeq(df.rows, LAMBDA r : r.artist = a)]

\* one pass of the loop gives the artist what process_data gives on the
\* artist's own rows, and leaves both ledgers as they were
C21_Step ==
    Len(collaborators') > Len(collaborators) =>
        /\ revenue_df' = revenue_df
        /\ song_df' = song_df
        /\ \E own \in {process_data(OwnRows(revenue_df, artists[idx + 1]),
                                    OwnRows(song_df, artists[idx + 1]),
                                    artists[idx + 1])} :
              IF own.raised
              THEN /\ failed_artists' =
                         Append(failed_artists,
                                [artist |-> artists[idx + 1], error |-> own.error])
                   /\ processed_artists' = processed_artists
              ELSE settlement' = [artist |-> artists[idx + 1]] @@ own

\* C21: the outcome of an artist depends only on that artist's own revenue
\* rows and cost rows, not on the rows of another artist, and processing an
\* artist leaves the two ledgers unchanged.
C21_OwnRowsOnly == [][C21_Step]_vars

\* three artists in one ledger, the last one settled, one of them failed
C21_Witness ==
    /\ pc = "done"
    /\ Len(artists) = 3
    /\ Len(revenue_df.rows) = 3
    /\ ~settlement.raised
    /\ settlement.artist = artists[3]
    /\ settlement.total_revenue > 0
    /\ failed_artists # <<>>

RECURSIVE IsSubsequence(_, _)
IsSubsequence(s, t) ==
    IF s = <<>> THEN TRUE
    ELSE IF t = <<>> THEN FALSE
    ELSE IF Head(s) = Head(t) THEN IsSubsequence(Tail(s), Tail(t))
    ELSE IsSubsequence(s, Tail(t))

FirstAt(cells, v) ==
    CHOOSE i \in 1..Len(cells) :
        cells[i] = v /\ \A j \in 1..(i - 1) : cells[j] # v

\* C22: the artists are processed in the order of their first appearance in
\* the revenue ledger, each once, and the succeeded list and the failed list
\* are subsequences of that order.
C22_FirstAppearanceOrder ==
    pc \in {"loop", "done"} =>
        LET cells == Column(revenue_df.rows, "artist")
        IN  /\ NoRepeat(artists)
            /\ {artists[i] : i \in 1..Len(artists)}
                  = {cells[i] : i \in 1..Len(cells)}
            /\ \A i, j \in 1..Len(artists) :
                  i < j => FirstAt(cells, artists[i]) < FirstAt(cells, artists[j])
            /\ Len(collaborators) = idx
            /\ IsSubsequence(processed_artists, SubSeq(artists, 1, idx))
            /\ IsSubsequence(FailedNames, SubSeq(artists, 1, idx))

\* the ledger names B, then A, then C; B and C succeeded around the failed A
C22_Witness ==
    /\ pc = "done"
    /\ Column(revenue_df.rows, "artist") = <<"B", "A", "C">>
    /\ artists = <<"B", "A", "C">>
    /\ processed_artists = <<"B", "C">>
    /\ FailedNames = <<"A">>

\* C23: at every point of the batch an artist the loop has not started yet
\* is in neither list.
C23_NotStartedInNeitherList ==
    pc \in {"loop", "done"} =>
        \A i \in (idx + 1)..Len(artists) :
            ~Succeeded(artists[i]) /\ ~Failed(artists[i])

\* the first artist has failed, two more have not been started
C23_Witness ==
    /\ pc = "loop"
    /\ idx = 1
    /\ Len(artists) = 3
    /\ Failed(artists[1])
    /\ ~Succeeded(artists[2]) /\ ~Failed(artists[2])
    /\ ~Succeeded(artists[3]) /\ ~Failed(artists[3])

\* C24: numeric normalization is applied to whole columns before the first
\* aggregation starts and never during or after it: no call of the
\* normalizer is made on an aggregated total or inside the loop.
C24_NormalizedBeforeAggregation ==
    \A c \in clean_calls : c.on = "column" /\ c.phase = "before the loop"

\* C25: the archive holds an html, pdf or excel entry of an artist only if
\* the artist is in the succeeded list, also when the artist failed in a
\* late step.
C25_FailedHasNoArtifact ==
    \A e \in zip_file :
        e[1] \in {"html", "pdf", "excel"} => Succeeded(e[2])

ProcessedTotal(id, col) == ColumnSum(RowsOf(processed_full_data, id), col)

\* C26: the per-creator comparison sets views_match (revenue_match) of a
\* creator to false when the creator's total in the processed data differs
\* by one unit or more from the total in the original detail rows.
C26_ProcessedIsCompared ==
    (main_pc = "done" /\ validation_results.computed) =>
        \A c \in validation_results.creators :
            /\ Abs(c.views_original - ProcessedTotal(c.id, "views")) >= ViewsUnit
                  => ~c.views_match
            /\ Abs(c.revenue_original - ProcessedTotal(c.id, "revenue")) >= RevenueUnit
                  => ~c.revenue_match

FailedCreator(id) == InSeq(failed_creators, id)

\* C27: the processed data has the rows of exactly the creators that did not
\* fail; a failed creator has no row in it, no spreadsheet and no report.
C27_FailedContributesNothing ==
    /\ \A j \in 1..Len(failed_creators) :
          /\ RowsOf(processed_full_data, failed_creators[j]) = <<>>
          /\ failed_creators[j] \notin excel_files
          /\ \A r \in reports_data : r.data.creatorName # failed_creators[j]
    /\ \A i \in 1..creator_idx :
          ~FailedCreator(creator_info[i].id) =>
              RowsOf(processed_full_data, creator_info[i].id)
                  = fillna(RowsOf(statistics_df, creator_info[i].id))

\* C28: after a batch in which a creator failed, the failure status kept in
\* the session names every failed creator and is not replaced by one that
\* names none.
C28_FailedStatusKept ==
    (main_pc = "done" /\ failed_creators # <<>>) =>
        /\ session_state.failed_status.set
        /\ session_state.failed_status.failed = failed_creators

\* C29: process_data hands main a triple on every path, also when no report
\* was produced, and the run does not end as a program error.
C29_AlwaysTriple ==
    main_pc = "done" =>
        batch_result \in {"reports, spreadsheets, processed data",
                          "None, None, None"}

\* C30: for a succeeded artist the remaining cost balance of the deduction
\* record is the prior cost balance less the deduction applied, and the
\* deduction applied is the amount subtracted from the total revenue.
C30_DeductionConsistent ==
    (~settlement.raised /\ Succeeded(settlement.artist)) =>
        /\ settlement.deduction_data.remaining_song_cost
              = settlement.deduction_data.song_cost
                - settlement.deduction_data.deduction_amount
        /\ settlement.deduction_data.applied_amount
              = settlement.total_revenue - settlement.deduction_data.deduction_amount

\* C15, for the creators of app_old1.py: every failed creator has a message
\* with a non-empty reason among the messages shown.
C15_CreatorReasonsKept ==
    \A j \in 1..Len(failed_creators) :
        \E k \in 1..Len(status_container) :
            /\ status_container[k].creator = failed_creators[j]
            /\ status_container[k].error # ""

====
